---- MODULE Spec2Model ----
(***************************************************************************)
(* Model of surfman/src/context.rs: the context identity counter           *)
(* (CREATE_CONTEXT_MUTEX), the ContextAttributeFlags bit set and the        *)
(* compatibility-profile detector.                                         *)
(*                                                                         *)
(* Three specifications share the module:                                  *)
(*   SpecRegistry  threads allocating ContextIDs under the mutex           *)
(*   SpecDetector  current_context_uses_compatibility_profile against a    *)
(*                 driver whose state is drawn in Init                     *)
(*   SpecFlags     the flag operators applied to all operand triples       *)
(***************************************************************************)
EXTENDS Integers, Sequences, FiniteSets

VARIABLES
    \* ---- identity registry ----
    CREATE_CONTEXT_MUTEX, \* [locked_by, id]: the Mutex<ContextID>
    tpc,                  \* per thread: position inside the allocation
    next_context_id,      \* per thread: the value read through the guard
    returned,             \* history: sequence of [thread, id] handed out
    live,                 \* indices into returned of the contexts not yet destroyed
    \* ---- profile detector ----
    platform,             \* "desktop" or "android" (cfg selection)
    gl,                   \* the bound context's driver state
    pc,                   \* position inside the detector
    context_profile_mask, \* local of the detector
    err,                  \* value returned by gl.get_error()
    result,               \* returned boolean
    log,                  \* driver calls issued by the current invocation
    errAtEntry,           \* driver error flag when the detector was called
    queryErr,             \* TRUE iff the mask query itself raised an error
    \* ---- attribute flags ----
    fa, fb, fc,           \* operands
    fop,                  \* last operation applied
    fres                  \* its result

regVars  == <<CREATE_CONTEXT_MUTEX, tpc, next_context_id, returned, live>>
detVars  == <<platform, gl, pc, context_profile_mask, err, result, log,
              errAtEntry, queryErr>>
flagVars == <<fa, fb, fc, fop, fres>>
vars     == <<regVars, detVars, flagVars>>

----------------------------------------------------------------------------
(* Bounds *)
NumThreads == 2
MaxAllocs  == 3

----------------------------------------------------------------------------
(* Bit arithmetic on non-negative integers *)
RECURSIVE BitAnd(_, _)
BitAnd(a, b) ==
    IF a = 0 \/ b = 0 THEN 0
    ELSE (a % 2) * (b % 2) + 2 * BitAnd(a \div 2, b \div 2)

RECURSIVE BitOr(_, _)
BitOr(a, b) ==
    IF a = 0 THEN b
    ELSE IF b = 0 THEN a
    ELSE (IF a % 2 = 1 \/ b % 2 = 1 THEN 1 ELSE 0)
         + 2 * BitOr(a \div 2, b \div 2)

RECURSIVE BitXor(_, _)
BitXor(a, b) ==
    IF a = 0 THEN b
    ELSE IF b = 0 THEN a
    ELSE (((a % 2) + (b % 2)) % 2) + 2 * BitXor(a \div 2, b \div 2)

U8Max == 255
BitNotU8(a) == U8Max - a

----------------------------------------------------------------------------
(* ContextAttributeFlags: u8 bit set *)
ALPHA                 == 1
DEPTH                 == 2
STENCIL               == 4
COMPATIBILITY_PROFILE == 8

FlagNames == {"ALPHA", "DEPTH", "STENCIL", "COMPATIBILITY_PROFILE"}
FlagBit(n) ==
    CASE n = "ALPHA"                 -> ALPHA
      [] n = "DEPTH"                 -> DEPTH
      [] n = "STENCIL"               -> STENCIL
      [] n = "COMPATIBILITY_PROFILE" -> COMPATIBILITY_PROFILE

flags_empty == 0
flags_all   == BitOr(BitOr(ALPHA, DEPTH), BitOr(STENCIL, COMPATIBILITY_PROFILE))

flags_union(a, b)        == BitOr(a, b)
flags_intersection(a, b) == BitAnd(a, b)

flags_difference_symmetric(a, b) == BitXor(a, b)
flags_difference(a, b)   == BitAnd(a, BitNotU8(b))

\* the subset of flag names a bit pattern stands for (contains())
FlagSet(bits) == {n \in FlagNames : (bits \div FlagBit(n)) % 2 = 1}

\* the bit pattern of a subset of flag names
RECURSIVE FromSet(_)
FromSet(S) ==
    IF S = {} THEN flags_empty
    ELSE LET n == CHOOSE x \in S : TRUE
         IN  FlagBit(n) + FromSet(S \ {n})

FlagValues == {FromSet(S) : S \in SUBSET FlagNames}

FlagsIdle ==
    /\ fa = 0 /\ fb = 0 /\ fc = 0 /\ fop = "none" /\ fres = 0

FlagsInit ==
    /\ fa \in FlagValues
    /\ fb \in FlagValues
    /\ fc \in FlagValues
    /\ fop = "none"
    /\ fres = 0

ApplyUnion ==
    /\ fop' = "union"
    /\ fres' = flags_union(fa, fb)
    /\ UNCHANGED <<fa, fb, fc>>
    /\ UNCHANGED <<regVars, detVars>>

ApplyIntersection ==
    /\ fop' = "intersection"
    /\ fres' = flags_intersection(fa, fb)
    /\ UNCHANGED <<fa, fb, fc>>
    /\ UNCHANGED <<regVars, detVars>>

ApplyDifference ==
    /\ fop' = "difference"
    /\ fres' = flags_difference(fa, fb)
    /\ UNCHANGED <<fa, fb, fc>>
    /\ UNCHANGED <<regVars, detVars>>

FlagsNext == ApplyUnion \/ ApplyIntersection \/ ApplyDifference

----------------------------------------------------------------------------
(* Identity registry: CREATE_CONTEXT_MUTEX and its users *)
Threads  == 1..NumThreads
NoThread == 0

\* Mutex::new(ContextID(0))
ContextID(n) == n
MutexNew == [locked_by |-> NoThread, id |-> ContextID(0)]

\* Mutex::lock blocks until no thread holds the mutex
LockAvailable_Always(m) == TRUE
LockAvailable(m) == m.locked_by = NoThread

\* next_context_id.0 += 1
AdvanceID_Stuck(id) == id
AdvanceID(id) == id + 1

\* allocations begun: handed out or in progress
Begun == Len(returned) + Cardinality({t \in Threads : tpc[t] # "idle"})

RegistryIdle ==
    /\ CREATE_CONTEXT_MUTEX = MutexNew
    /\ tpc = [t \in Threads |-> "idle"]
    /\ next_context_id = [t \in Threads |-> ContextID(0)]
    /\ returned = <<>>
    /\ live = {}

RegistryInit == RegistryIdle

Lock(t) ==
    /\ tpc[t] = "idle"
    /\ Begun < MaxAllocs
    /\ LockAvailable(CREATE_CONTEXT_MUTEX)
    /\ CREATE_CONTEXT_MUTEX' = [CREATE_CONTEXT_MUTEX EXCEPT !.locked_by = t]
    /\ tpc' = [tpc EXCEPT ![t] = "locked"]
    /\ UNCHANGED <<next_context_id, returned, live>>
    /\ UNCHANGED <<detVars, flagVars>>

ReadID(t) ==
    /\ tpc[t] = "locked"
    /\ next_context_id' = [next_context_id EXCEPT ![t] = CREATE_CONTEXT_MUTEX.id]
    /\ tpc' = [tpc EXCEPT ![t] = "read"]
    /\ UNCHANGED <<CREATE_CONTEXT_MUTEX, returned, live>>
    /\ UNCHANGED <<detVars, flagVars>>

Advance(t) ==
    /\ tpc[t] = "read"
    /\ CREATE_CONTEXT_MUTEX' =
         [CREATE_CONTEXT_MUTEX EXCEPT !.id = AdvanceID(CREATE_CONTEXT_MUTEX.id)]
    /\ tpc' = [tpc EXCEPT ![t] = "advanced"]
    /\ UNCHANGED <<next_context_id, returned, live>>
    /\ UNCHANGED <<detVars, flagVars>>

\* the guard is dropped; the new context carries the ID and becomes live
Unlock(t) ==
    /\ tpc[t] = "advanced"
    /\ CREATE_CONTEXT_MUTEX' = [CREATE_CONTEXT_MUTEX EXCEPT !.locked_by = NoThread]
    /\ returned' = Append(returned, [thread |-> t, id |-> next_context_id[t]])
    /\ live' = live \cup {Len(returned) + 1}
    /\ tpc' = [tpc EXCEPT ![t] = "idle"]
    /\ UNCHANGED next_context_id
    /\ UNCHANGED <<detVars, flagVars>>

DestroyContext(i) ==
    /\ i \in live
    /\ live' = live \ {i}
    /\ UNCHANGED <<CREATE_CONTEXT_MUTEX, tpc, next_context_id, returned>>
    /\ UNCHANGED <<detVars, flagVars>>

RegistryNext ==
    \/ \E t \in Threads : Lock(t)
    \/ \E t \in Threads : ReadID(t)
    \/ \E t \in Threads : Advance(t)
    \/ \E t \in Threads : Unlock(t)
    \/ \E i \in live : DestroyContext(i)

----------------------------------------------------------------------------
(* Profile detector *)
NO_ERROR                          == 0
INVALID_ENUM                      == 1280
INVALID_OPERATION                 == 1282
CONTEXT_CORE_PROFILE_BIT          == 1
CONTEXT_COMPATIBILITY_PROFILE_BIT == 2

Platforms   == {"desktop", "android"}
ErrorCodes  == {NO_ERROR, INVALID_ENUM, INVALID_OPERATION}
MaskValues  == 0..BitOr(CONTEXT_CORE_PROFILE_BIT, CONTEXT_COMPATIBILITY_PROFILE_BIT)
ExtNames    == {"GL_ARB_compatibility", "GL_ARB_debug_output"}

\* the driver keeps one error flag: an error is recorded only while it is clear
RecordError(flag, e) == IF flag = NO_ERROR THEN e ELSE flag

\* the error flag after gl.get_error(): reading it resets it
get_error_keeps(flag) == flag
get_error_resets(flag) == NO_ERROR

\* gl.get_error() == gl::NO_ERROR && (mask & COMPATIBILITY_PROFILE_BIT) != 0
MaskConfirms_IgnoresError(e, mask) ==
    BitAnd(mask, CONTEXT_COMPATIBILITY_PROFILE_BIT) # 0
MaskConfirms_IgnoresMask(e, mask) == e = NO_ERROR
MaskConfirms_CoreBit(e, mask) ==
    e = NO_ERROR /\ BitAnd(mask, CONTEXT_CORE_PROFILE_BIT) # 0
MaskConfirms(e, mask) ==
    e = NO_ERROR /\ BitAnd(mask, CONTEXT_COMPATIBILITY_PROFILE_BIT) # 0

\* gl.supported_extensions().contains("GL_ARB_compatibility")
HasCompatibilityExtension_Never(exts) == FALSE
HasCompatibilityExtension(exts) == "GL_ARB_compatibility" \in exts

\* the android / ohos variant of the function
android_result_from_mask(g) ==
    BitAnd(g.profile_mask, CONTEXT_COMPATIBILITY_PROFILE_BIT) # 0
android_result(g) == FALSE

DetectorIdle ==
    /\ platform = "desktop"
    /\ gl = [error |-> NO_ERROR, profile_mask |-> 0, mask_supported |-> TRUE,
             extensions |-> {}]
    /\ pc = "idle"
    /\ context_profile_mask = 0
    /\ err = NO_ERROR
    /\ result = FALSE
    /\ log = <<>>
    /\ errAtEntry = NO_ERROR
    /\ queryErr = FALSE

DetectorInit ==
    /\ platform \in Platforms
    /\ gl \in [error : ErrorCodes, profile_mask : MaskValues,
               mask_supported : BOOLEAN, extensions : SUBSET ExtNames]
    /\ pc = "idle"
    /\ context_profile_mask = 0
    /\ err = NO_ERROR
    /\ result = FALSE
    /\ log = <<>>
    /\ errAtEntry = NO_ERROR
    /\ queryErr = FALSE

\* #[cfg(any(target_os = "android", target_env = "ohos"))]
DetectAndroid ==
    /\ pc = "idle"
    /\ platform = "android"
    /\ errAtEntry' = gl.error
    /\ log' = <<>>
    /\ queryErr' = FALSE
    /\ result' = android_result(gl)
    /\ pc' = "returned"
    /\ UNCHANGED <<platform, gl, context_profile_mask, err>>
    /\ UNCHANGED <<regVars, flagVars>>

\* #[cfg(not(any(target_os = "android", target_env = "ohos")))]
CallDesktop ==
    /\ pc = "idle"
    /\ platform = "desktop"
    /\ errAtEntry' = gl.error
    /\ log' = <<>>
    /\ queryErr' = FALSE
    /\ pc' = "query"
    /\ UNCHANGED <<platform, gl, context_profile_mask, err, result>>
    /\ UNCHANGED <<regVars, flagVars>>

\* gl.get_parameter_i32(gl::CONTEXT_PROFILE_MASK), parameter known to the driver
QueryProfileMaskOk ==
    /\ pc = "query"
    /\ gl.mask_supported
    /\ context_profile_mask' = gl.profile_mask
    /\ queryErr' = FALSE
    /\ log' = Append(log, "get_parameter_i32")
    /\ pc' = "check"
    /\ UNCHANGED <<platform, gl, err, result, errAtEntry>>
    /\ UNCHANGED <<regVars, flagVars>>

\* the same query on a driver that rejects the parameter: an error is raised
\* and the value handed back carries no information
QueryProfileMaskRejected ==
    /\ pc = "query"
    /\ ~gl.mask_supported
    /\ \E v \in MaskValues : context_profile_mask' = v
    /\ gl' = [gl EXCEPT !.error = RecordError(gl.error, INVALID_ENUM)]
    /\ queryErr' = TRUE
    /\ log' = Append(log, "get_parameter_i32")
    /\ pc' = "check"
    /\ UNCHANGED <<platform, err, result, errAtEntry>>
    /\ UNCHANGED <<regVars, flagVars>>

\* if gl.get_error() == NO_ERROR && (mask & BIT) != 0 { return true; }
CheckErrorReturnTrue ==
    /\ pc = "check"
    /\ MaskConfirms(gl.error, context_profile_mask)
    /\ err' = gl.error
    /\ gl' = [gl EXCEPT !.error = get_error_resets(gl.error)]
    /\ log' = Append(log, "get_error")
    /\ result' = TRUE
    /\ pc' = "returned"
    /\ UNCHANGED <<platform, context_profile_mask, errAtEntry, queryErr>>
    /\ UNCHANGED <<regVars, flagVars>>

CheckErrorFallThrough ==
    /\ pc = "check"
    /\ ~MaskConfirms(gl.error, context_profile_mask)
    /\ err' = gl.error
    /\ gl' = [gl EXCEPT !.error = get_error_resets(gl.error)]
    /\ log' = Append(log, "get_error")
    /\ pc' = "fallback"
    /\ UNCHANGED <<platform, context_profile_mask, result, errAtEntry, queryErr>>
    /\ UNCHANGED <<regVars, flagVars>>

\* gl.supported_extensions().contains("GL_ARB_compatibility")
InspectExtensions ==
    /\ pc = "fallback"
    /\ result' = HasCompatibilityExtension(gl.extensions)
    /\ log' = Append(log, "supported_extensions")
    /\ pc' = "returned"
    /\ UNCHANGED <<platform, gl, context_profile_mask, err, errAtEntry, queryErr>>
    /\ UNCHANGED <<regVars, flagVars>>

\* the caller takes the boolean; the detector may be called again
Return ==
    /\ pc = "returned"
    /\ pc' = "idle"
    /\ UNCHANGED <<platform, gl, context_profile_mask, err, result, log,
                   errAtEntry, queryErr>>
    /\ UNCHANGED <<regVars, flagVars>>

current_context_uses_compatibility_profile ==
    \/ DetectAndroid
    \/ CallDesktop
    \/ QueryProfileMaskOk
    \/ QueryProfileMaskRejected
    \/ CheckErrorReturnTrue
    \/ CheckErrorFallThrough
    \/ InspectExtensions
    \/ Return

----------------------------------------------------------------------------
(* Specifications *)
InitRegistry == RegistryInit /\ DetectorIdle /\ FlagsIdle
NextRegistry == RegistryNext
SpecRegistry == InitRegistry /\ [][NextRegistry]_vars

InitDetector == RegistryIdle /\ DetectorInit /\ FlagsIdle
NextDetector == current_context_uses_compatibility_profile
SpecDetector == InitDetector /\ [][NextDetector]_vars

InitFlags == RegistryIdle /\ DetectorIdle /\ FlagsInit
NextFlags == FlagsNext
SpecFlags == InitFlags /\ [][NextFlags]_vars

----------------------------------------------------------------------------
(* Properties *)
Range(q) == {q[i] : i \in DOMAIN q}
CompatBitSet(mask) == (mask \div 2) % 2 = 1
DesktopReturned == platform = "desktop" /\ pc = "returned"

\* C1: under every interleaving of the threads' allocation calls, the
\* ContextID values handed out are pairwise distinct.
C1_AllocatedIDsDistinct ==
    \A i, j \in DOMAIN returned :
        i # j => returned[i].id # returned[j].id

C1_Witness ==
    \E i, j \in DOMAIN returned :
        /\ returned[i].thread # returned[j].thread
        /\ \E t \in Threads : tpc[t] = "advanced"

\* C2: after any sequence of context creations and destructions, no two
\* contexts that are live at the same time hold the same ContextID.
C2_LiveIDsDistinct ==
    \A i, j \in live :
        i # j => returned[i].id # returned[j].id

C2_Witness ==
    /\ Cardinality(live) >= 2
    /\ \E i \in DOMAIN returned : i \notin live

\* C3: on desktop GL, when the error check after the profile-mask query
\* reports no error and the mask has the compatibility bit, the detector
\* returns true right away and never looks at the extension set.
C3_MaskConfirmsWithoutExtensions ==
    (DesktopReturned /\ err = NO_ERROR /\ CompatBitSet(context_profile_mask))
        => /\ result = TRUE
           /\ log = <<"get_parameter_i32", "get_error">>
           /\ "supported_extensions" \notin Range(log)

C3_Witness ==
    /\ DesktopReturned
    /\ err = NO_ERROR
    /\ CompatBitSet(context_profile_mask)
    /\ "GL_ARB_compatibility" \notin gl.extensions
    /\ result = TRUE

\* C4: on desktop GL, when the driver reports an error for the profile-mask
\* query, the detector still returns a boolean: it inspects the extension set
\* and returns true iff GL_ARB_compatibility is present, whatever the mask.
C4_ErrorFallsBackToExtensions ==
    (DesktopReturned /\ err # NO_ERROR)
        => /\ result \in BOOLEAN
           /\ result = ("GL_ARB_compatibility" \in gl.extensions)
           /\ log = <<"get_parameter_i32", "get_error", "supported_extensions">>

C4_Witness ==
    /\ DesktopReturned
    /\ queryErr
    /\ err = INVALID_ENUM
    /\ CompatBitSet(context_profile_mask)
    /\ "GL_ARB_compatibility" \notin gl.extensions
    /\ result = FALSE

\* C5: an error raised by the detector's mask query is consumed before the
\* extension fallback runs, and none is pending when the detector returns.
C5_QueryErrorConsumed ==
    (queryErr /\ pc \in {"fallback", "returned"}) => gl.error = NO_ERROR

C5_Witness ==
    /\ DesktopReturned
    /\ queryErr
    /\ errAtEntry = NO_ERROR
    /\ err = INVALID_ENUM
    /\ gl.error = NO_ERROR

\* C6 (as claimed): on desktop GL, when the mask query succeeds and the mask
\* lacks the compatibility bit, the detector returns false.
C6_NoBitReturnsFalse ==
    (DesktopReturned /\ err = NO_ERROR /\ ~CompatBitSet(context_profile_mask))
        => result = FALSE

\* C6 (amended): on desktop GL, when the mask query succeeds and the mask
\* lacks the compatibility bit, the detector falls back to the extension set
\* and returns true iff GL_ARB_compatibility is present (false otherwise).
C6_NoBitFallsBackToExtensions ==
    (DesktopReturned /\ err = NO_ERROR /\ ~CompatBitSet(context_profile_mask))
        => /\ result = ("GL_ARB_compatibility" \in gl.extensions)
           /\ log = <<"get_parameter_i32", "get_error", "supported_extensions">>

C6_Witness ==
    /\ DesktopReturned
    /\ err = NO_ERROR
    /\ context_profile_mask = 0
    /\ "GL_ARB_compatibility" \notin gl.extensions
    /\ result = FALSE

\* C7: on android / ohos the detector returns false for every driver state,
\* issues no driver call and leaves the driver's error flag as it found it.
C7_AndroidConstantFalse ==
    (platform = "android" /\ pc = "returned")
        => /\ result = FALSE
           /\ log = <<>>
           /\ gl.error = errAtEntry

C7_Witness ==
    /\ platform = "android"
    /\ pc = "returned"
    /\ gl.error # NO_ERROR
    /\ CompatBitSet(gl.profile_mask)
    /\ "GL_ARB_compatibility" \in gl.extensions

\* C8: on the 16 flag values, union is associative and commutative with the
\* empty set as identity, and intersection and difference agree with set
\* intersection and set difference of the flag subsets.
C8_FlagAlgebra ==
    /\ flags_union(flags_union(fa, fb), fc) = flags_union(fa, flags_union(fb, fc))
    /\ flags_union(fa, fb) = flags_union(fb, fa)
    /\ flags_union(flags_empty, fa) = fa
    /\ flags_intersection(fa, fb) = FromSet(FlagSet(fa) \cap FlagSet(fb))
    /\ flags_difference(fa, fb) = FromSet(FlagSet(fa) \ FlagSet(fb))
    /\ fop = "intersection" => FlagSet(fres) = FlagSet(fa) \cap FlagSet(fb)
    /\ fop = "difference" => FlagSet(fres) = FlagSet(fa) \ FlagSet(fb)

C8_Witness ==
    /\ fop = "difference"
    /\ FlagSet(fa) = {"ALPHA", "DEPTH"}
    /\ FlagSet(fb) = {"DEPTH", "STENCIL"}
    /\ FlagSet(fres) = {"ALPHA"}

\* C9: the counter starts at ContextID(0) and the IDs one thread receives
\* from successive allocations are strictly increasing (hence distinct).
C9_SuccessiveIDsIncrease ==
    /\ returned # <<>> => returned[1].id = ContextID(0)
    /\ \A i, j \in DOMAIN returned :
          (i < j /\ returned[i].thread = returned[j].thread)
              => returned[i].id < returned[j].id

C9_Witness ==
    \E i, j \in DOMAIN returned :
        /\ i < j
        /\ returned[i].thread = returned[j].thread
        /\ returned[i].id < returned[j].id

\* C10: the desktop detector checks the driver error flag exactly once per
\* call, right after the mask query; an error pending on entry is consumed by
\* that check and makes the result GL_ARB_compatibility's presence, even when
\* the mask has the compatibility bit.
C10_SingleErrorCheck ==
    DesktopReturned
        => /\ Cardinality({i \in DOMAIN log : log[i] = "get_error"}) = 1
           /\ log[1] = "get_parameter_i32"
           /\ log[2] = "get_error"
           /\ errAtEntry # NO_ERROR
                 => /\ err = errAtEntry
                    /\ gl.error = NO_ERROR
                    /\ result = ("GL_ARB_compatibility" \in gl.extensions)

C10_Witness ==
    /\ DesktopReturned
    /\ errAtEntry = INVALID_OPERATION
    /\ ~queryErr
    /\ CompatBitSet(context_profile_mask)
    /\ "GL_ARB_compatibility" \notin gl.extensions
    /\ result = FALSE

====
